---- MODULE Spec2Model ----
(***************************************************************************)
(* Model of src/pix_generator.py: the PIX payload encoder                  *)
(* (generate_pix_payload), its payee-id normaliser (format_cpf) and its    *)
(* CRC16 routine (calculate_crc16 / crc16_ccitt).                          *)
(*                                                                         *)
(* A Python str is a sequence of Unicode code points (naturals); a bytes   *)
(* object is a sequence of naturals in 0..255.  String literals of the     *)
(* source are written as tuples of code points, the text in a comment.     *)
(***************************************************************************)
EXTENDS Integers, Sequences, FiniteSets, TLC

(***************************************************************************)
(* Bounds of the model: the lengths of the generated test inputs.          *)
(***************************************************************************)
LongDescLen == 40
LongNameLen == 30
LongCityLen == 20
LongCpfLen == 100
MidCpfLen == 50

(***************************************************************************)
(* Integer helpers: Python's int operators on non-negative integers.       *)
(***************************************************************************)
Min(a, b) == IF a < b THEN a ELSE b

\* The element of a one-element set.  Only({F(v) : v \in {x}}) is F(x) with
\* x evaluated once, before F: the order in which Python evaluates.
Only(S) == CHOOSE r \in S : TRUE

\* bit k of (a ^ b), at its place
XorBitAt(a, b, k) ==
    ((((a \div (2 ^ k)) % 2) + ((b \div (2 ^ k)) % 2)) % 2) * (2 ^ k)

\* a ^ b for a, b < 256
BitXor8(a, b) ==
    XorBitAt(a, b, 0) + XorBitAt(a, b, 1) + XorBitAt(a, b, 2) + XorBitAt(a, b, 3)
    + XorBitAt(a, b, 4) + XorBitAt(a, b, 5) + XorBitAt(a, b, 6) + XorBitAt(a, b, 7)

RECURSIVE BitXor(_, _)
\* a ^ b, eight bits at a time
BitXor(a, b) ==
    IF a = 0 THEN b
    ELSE IF b = 0 THEN a
    ELSE BitXor8(a % 256, b % 256) + (256 * BitXor(a \div 256, b \div 256))

(***************************************************************************)
(* str.encode('utf-8'): the UTF-8 bytes of one code point and of a str.    *)
(* A lone surrogate (U+D800..U+DFFF) cannot be encoded: Python raises      *)
(* UnicodeEncodeError.                                                     *)
(***************************************************************************)
IsSurrogate(c) == c \in 55296..57343

Utf8Char(c) ==
    IF c < 128 THEN <<c>>
    ELSE IF c < 2048 THEN <<192 + (c \div 64), 128 + (c % 64)>>
    ELSE IF c < 65536 THEN
        <<224 + (c \div 4096), 128 + ((c \div 64) % 64), 128 + (c % 64)>>
    ELSE <<240 + (c \div 262144), 128 + ((c \div 4096) % 64),
           128 + ((c \div 64) % 64), 128 + (c % 64)>>

RECURSIVE Utf8Range(_, _, _)
\* the bytes of s[lo..hi], in order (the range is halved to keep the
\* evaluation shallow)
Utf8Range(s, lo, hi) ==
    IF lo > hi THEN <<>>
    ELSE IF lo = hi THEN Utf8Char(s[lo])
    ELSE LET mid == (lo + hi) \div 2
         IN  Utf8Range(s, lo, mid) \o Utf8Range(s, mid + 1, hi)

Utf8(s) == Only({Utf8Range(v, 1, Len(v)) : v \in {s}})

CanEncode(s) == {i \in 1..Len(s) : IsSurrogate(s[i])} = {}

(***************************************************************************)
(* calculate_crc16 / crc16_ccitt (lines 8-22).                             *)
(***************************************************************************)
CrcInit == 65535        \* 0xFFFF
CrcTopBit == 32768      \* 0x8000
CrcModulus == 65536     \* x & 0xFFFF is x % 0x10000

\* line 13: crc ^= byte << 8
CrcXorByte(crc, byte) == BitXor(crc, byte * 256)

\* line 15: crc & 0x8000, a single-bit mask: bit 15 of crc
TopBitSet(crc) == (crc \div CrcTopBit) % 2 = 1

\* x ^ (1 << k)
FlipBit(x, k) == IF (x \div (2 ^ k)) % 2 = 1 THEN x - (2 ^ k) ELSE x + (2 ^ k)

\* line 16: x ^ 0x1021, and 0x1021 is (1 << 12) | (1 << 5) | 1
XorPoly(x) == FlipBit(FlipBit(FlipBit(x, 12), 5), 0)

\* A slip of the inner loop: the register is not masked to 16 bits.
CrcShiftNoMask(crc) == IF TopBitSet(crc) THEN XorPoly(crc * 2) ELSE crc * 2

\* lines 15-19: one iteration of `for _ in range(8)`
CrcShift(crc) ==
    (IF TopBitSet(crc) THEN XorPoly(crc * 2) ELSE crc * 2) % CrcModulus

(***************************************************************************)
(* Python's format specifications used by the source.                      *)
(***************************************************************************)
RECURSIVE DecDigits(_)
\* str(n) for n >= 0
DecDigits(n) ==
    IF n < 10 THEN <<48 + n>> ELSE DecDigits(n \div 10) \o <<48 + (n % 10)>>

RECURSIVE ZeroPad(_, _)
ZeroPad(s, width) == IF Len(s) >= width THEN s ELSE ZeroPad(<<48>> \o s, width)

\* f"{n:02d}", n >= 0: at least 2 digits, more when n >= 100
Fmt02d(n) == ZeroPad(DecDigits(n), 2)

HexDigit(d) == IF d < 10 THEN 48 + d ELSE 65 + (d - 10)

RECURSIVE HexDigits(_)
HexDigits(n) ==
    IF n < 16 THEN <<HexDigit(n)>>
    ELSE HexDigits(n \div 16) \o <<HexDigit(n % 16)>>

\* A slip of the format: "X" without the zero padding to 4 digits.
FmtXNoPad(n) == HexDigits(n)

\* f"{crc:04X}"
Fmt04X(n) == ZeroPad(HexDigits(n), 4)

(***************************************************************************)
(* The amount: a Python float.  A finite amount is n / AmountDen, a value  *)
(* a binary float holds exactly; the others are inf, -inf and nan.         *)
(***************************************************************************)
AmountDen == 8

Num(n) == [kind |-> "num", n |-> n]
PosInf == [kind |-> "inf", n |-> 0]
NegInf == [kind |-> "-inf", n |-> 0]
NaN == [kind |-> "nan", n |-> 0]

\* line 63: amount > 0
AmountGt0(a) == a.kind = "inf" \/ (a.kind = "num" /\ a.n > 0)

\* round(|n| * 100 / AmountDen), ties to even: the correctly rounded cents
RoundedCents(m) ==
    LET q == (m * 100) \div AmountDen
        r == (m * 100) % AmountDen
    IN  IF 2 * r > AmountDen THEN q + 1
        ELSE IF 2 * r < AmountDen THEN q
        ELSE IF q % 2 = 0 THEN q ELSE q + 1

\* line 64: f"{amount:.2f}"
FmtDot2f(a) ==
    IF a.kind = "inf" THEN <<105, 110, 102>>            \* "inf"
    ELSE IF a.kind = "-inf" THEN <<45, 105, 110, 102>>  \* "-inf"
    ELSE IF a.kind = "nan" THEN <<110, 97, 110>>        \* "nan"
    ELSE LET m == IF a.n < 0 THEN 0 - a.n ELSE a.n
             c == RoundedCents(m)
         IN  (IF a.n < 0 THEN <<45>> ELSE <<>>)
             \o DecDigits(c \div 100) \o <<46>>
             \o <<48 + ((c \div 10) % 10), 48 + (c % 10)>>

(***************************************************************************)
(* format_cpf (lines 24-26).                                               *)
(***************************************************************************)
\* str.isdigit for one character: the ASCII digits and the other Unicode
\* digits (superscripts two, three, one; the Arabic-Indic digits).
StrIsDigit(c) ==
    \/ c \in 48..57
    \/ c \in {178, 179, 185}
    \/ c \in 1632..1641

\* line 26: ''.join(filter(str.isdigit, cpf))
format_cpf(cpf) == SelectSeq(cpf, StrIsDigit)

(***************************************************************************)
(* generate_pix_payload (lines 28-87): the pieces it concatenates.         *)
(***************************************************************************)
DescMax == 25
NameMax == 25
CityMax == 15

\* A slip of the slice: one character too few.
SliceShort(s, k) == SubSeq(s, 1, Min(k, Len(s)) - 1)

\* s[:k]
Slice(s, k) == SubSeq(s, 1, Min(k, Len(s)))

\* line 35 "00020" and line 38 "126"
PayloadFormatIndicator == <<48, 48, 48, 50, 48>>
PointOfInitiation == <<49, 50, 54>>

\* line 42: "0014BR.GOV.BCB.PIX"
Gui == <<48, 48, 49, 52, 66, 82, 46, 71, 79, 86, 46, 66, 67, 66, 46, 80, 73, 88>>

\* line 45: f"01{len(cpf_formatted):02d}{cpf_formatted}"
KeyField(cpf_formatted) ==
    <<48, 49>> \o Fmt02d(Len(cpf_formatted)) \o cpf_formatted

\* A slip of the optional field: emitted also for an empty description.
DescFieldAlways(description) ==
    LET description_clean == Slice(description, DescMax)
    IN  <<48, 50>> \o Fmt02d(Len(description_clean)) \o description_clean

\* lines 48-51
DescField(description) ==
    IF description # <<>>
    THEN LET description_clean == Slice(description, DescMax)
         IN  <<48, 50>> \o Fmt02d(Len(description_clean)) \o description_clean
    ELSE <<>>

\* line 57 "52040000", line 60 "5303986", line 68 "5802BR"
MerchantCategoryCode == <<53, 50, 48, 52, 48, 48, 48, 48>>
TransactionCurrency == <<53, 51, 48, 51, 57, 56, 54>>
CountryCode == <<53, 56, 48, 50, 66, 82>>

\* line 65: f"54{len(amount_str):02d}{amount_str}"
AmountField(amount_str) ==
    <<53, 52>> \o Fmt02d(Len(amount_str)) \o amount_str

\* lines 71-72
NameField(merchant_name) ==
    LET merchant_name_clean == Slice(merchant_name, NameMax)
    IN  <<53, 57>> \o Fmt02d(Len(merchant_name_clean)) \o merchant_name_clean

\* lines 75-76
CityField(merchant_city) ==
    LET merchant_city_clean == Slice(merchant_city, CityMax)
    IN  <<54, 48>> \o Fmt02d(Len(merchant_city_clean)) \o merchant_city_clean

\* lines 79-80: additional_data = "0503***"
AdditionalData == <<48, 53, 48, 51, 42, 42, 42>>
AdditionalDataField == <<54, 50>> \o Fmt02d(Len(AdditionalData)) \o AdditionalData

\* line 83: "6304"
CrcPrefix == <<54, 51, 48, 52>>

(***************************************************************************)
(* The inputs the callers supply.                                          *)
(***************************************************************************)
LongText(n) == [i \in 1..n |-> 65 + (i % 26)]
Digits(n) == [i \in 1..n |-> 48 + (i % 10)]

Cpfs ==
    { <<49, 51, 49, 46, 49, 51, 52, 46, 57, 55, 54, 45, 54, 51>>,  \* "131.134.976-63"
      <<49, 51, 49, 49, 51, 52, 57, 55, 54, 54, 51>>,              \* "13113497663"
      <<49, 178, 51>>,                                             \* "1(superscript 2)3"
      <<>>,
      Digits(MidCpfLen),
      Digits(LongCpfLen) }

Amounts ==
    { Num(n) : n \in {0 - 8, 0, 1, 3, 2000} } \cup {PosInf, NegInf, NaN}

Descriptions ==
    { <<>>,
      <<65, 105, 114, 32, 70, 114, 121, 101, 114>>,   \* "Air Fryer"
      <<67, 97, 102, 233>>,                           \* "Cafe" with e-acute
      <<55296>>,                                      \* a lone surrogate
      LongText(LongDescLen) }

MerchantNames ==
    { <<76, 105, 115, 116, 97, 32, 100, 101, 32, 80, 114, 101, 115, 101, 110, 116, 101, 115>>,
                                                      \* "Lista de Presentes"
      LongText(LongNameLen) }

MerchantCities ==
    { <<83, 65, 79, 32, 80, 65, 85, 76, 79>>,         \* "SAO PAULO"
      LongText(CityMax),
      LongText(LongCityLen) }

CrcTexts ==
    { <<49, 50, 51, 52, 53, 54, 55, 56, 57>>,         \* "123456789"
      <<>>,
      <<65>>,                                         \* "A"
      <<67, 97, 102, 233>>,                           \* "Cafe" with e-acute
      <<8364, 49>>,                                   \* euro sign, "1"
      <<128512>>,                                     \* a 4-byte character
      <<65, 55296>> }                                 \* "A", a lone surrogate

(***************************************************************************)
(* State.                                                                  *)
(***************************************************************************)
VARIABLES
    fn,             \* the function a caller entered: "none" before the call
    pc,             \* the position in it
    cpf, amount, description, merchant_name, merchant_city,
                    \* arguments of generate_pix_payload
    cpf_formatted, key_field, desc_field, merchant_info, amount_str,
    payload, crc,   \* locals of generate_pix_payload
    data,           \* crc16_ccitt: its argument
    bytes,          \* crc16_ccitt: the encoded bytes not yet consumed
    reg,            \* crc16_ccitt: its local `crc`, the register
    bit,            \* crc16_ccitt: iterations of the inner loop left
    result          \* the value returned

argvars == <<cpf, amount, description, merchant_name, merchant_city>>
locvars == <<cpf_formatted, key_field, desc_field, merchant_info, amount_str,
             payload, crc>>
crcvars == <<data, bytes, reg, bit>>
vars == <<fn, pc, argvars, locvars, crcvars, result>>

Init ==
    /\ fn = "none"
    /\ pc = "idle"
    /\ cpf = <<>> /\ amount = Num(0) /\ description = <<>>
    /\ merchant_name = <<>> /\ merchant_city = <<>>
    /\ cpf_formatted = <<>> /\ key_field = <<>> /\ desc_field = <<>>
    /\ merchant_info = <<>> /\ amount_str = <<>>
    /\ payload = <<>> /\ crc = 0
    /\ data = <<>> /\ bytes = <<>> /\ reg = 0 /\ bit = 0
    /\ result = <<>>

(***************************************************************************)
(* calculate_crc16, step by step: called on its own, and (from EmitCrcPrefix *)
(* below) by generate_pix_payload.                                         *)
(***************************************************************************)
\* lines 8-12: entry, crc = 0xFFFF, data.encode('utf-8')
CallCalculateCrc16 ==
    /\ pc = "idle"
    /\ \E text \in CrcTexts :
        /\ CanEncode(text)
        /\ data' = text
        /\ bytes' = Utf8(text)
    /\ fn' = "calculate_crc16"
    /\ pc' = "crc_loop"
    /\ reg' = CrcInit
    /\ bit' = 0
    /\ UNCHANGED <<argvars, locvars, result>>

\* line 12: data.encode('utf-8') raises UnicodeEncodeError
CallCalculateCrc16Raises ==
    /\ pc = "idle"
    /\ \E text \in CrcTexts :
        /\ ~CanEncode(text)
        /\ data' = text
    /\ fn' = "calculate_crc16"
    /\ pc' = "raised"
    /\ reg' = CrcInit
    /\ UNCHANGED <<argvars, locvars, bytes, bit, result>>

\* lines 12-13: the next byte is XORed into the high 8 bits
CrcNextByte ==
    /\ pc = "crc_loop"
    /\ bit = 0
    /\ bytes # <<>>
    /\ reg' = CrcXorByte(reg, Head(bytes))
    /\ bytes' = Tail(bytes)
    /\ bit' = 8
    /\ UNCHANGED <<fn, pc, argvars, locvars, data, result>>

\* lines 14-19: one iteration of the inner loop
CrcShiftBit ==
    /\ pc = "crc_loop"
    /\ bit > 0
    /\ reg' = CrcShift(reg)
    /\ bit' = bit - 1
    /\ UNCHANGED <<fn, pc, argvars, locvars, data, bytes, result>>

\* lines 20-22: return crc, to a caller of calculate_crc16
CrcReturn ==
    /\ fn = "calculate_crc16"
    /\ pc = "crc_loop"
    /\ bit = 0
    /\ bytes = <<>>
    /\ result' = reg
    /\ pc' = "crc_done"
    /\ UNCHANGED <<fn, argvars, locvars, crcvars>>

(***************************************************************************)
(* generate_pix_payload, block by block.                                   *)
(***************************************************************************)
\* lines 28-32: entry and cpf_formatted = format_cpf(cpf)
CallGeneratePixPayload ==
    /\ pc = "idle"
    /\ \E c \in Cpfs, a \in Amounts, d \in Descriptions,
          n \in MerchantNames, t \in MerchantCities :
        /\ cpf' = c
        /\ amount' = a
        /\ description' = d
        /\ merchant_name' = n
        /\ merchant_city' = t
        /\ cpf_formatted' = format_cpf(c)
    /\ fn' = "generate_pix_payload"
    /\ pc' = "header"
    /\ UNCHANGED <<key_field, desc_field, merchant_info, amount_str, payload,
                   crc, crcvars, result>>

\* lines 34-38: payload = "00020"; payload += "126"
EmitHeader ==
    /\ pc = "header"
    /\ payload' = PayloadFormatIndicator \o PointOfInitiation
    /\ pc' = "merchant_info"
    /\ UNCHANGED <<fn, argvars, cpf_formatted, key_field, desc_field,
                   merchant_info, amount_str, crc, crcvars, result>>

\* lines 40-54: the merchant account information
EmitMerchantInfo ==
    /\ pc = "merchant_info"
    /\ key_field' = KeyField(cpf_formatted)
    /\ desc_field' = DescField(description)
    /\ merchant_info' = Gui \o key_field' \o desc_field'
    /\ payload' = payload \o Fmt02d(Len(merchant_info')) \o merchant_info'
    /\ pc' = "fixed"
    /\ UNCHANGED <<fn, argvars, cpf_formatted, amount_str, crc, crcvars, result>>

\* lines 56-60: merchant category code and transaction currency
EmitCategoryAndCurrency ==
    /\ pc = "fixed"
    /\ payload' = payload \o MerchantCategoryCode \o TransactionCurrency
    /\ pc' = "amount"
    /\ UNCHANGED <<fn, argvars, cpf_formatted, key_field, desc_field,
                   merchant_info, amount_str, crc, crcvars, result>>

\* lines 63-65: amount > 0
EmitAmount ==
    /\ pc = "amount"
    /\ AmountGt0(amount)
    /\ amount_str' = FmtDot2f(amount)
    /\ payload' = payload \o AmountField(amount_str')
    /\ pc' = "tail"
    /\ UNCHANGED <<fn, argvars, cpf_formatted, key_field, desc_field,
                   merchant_info, crc, crcvars, result>>

\* line 63: not (amount > 0)
SkipAmount ==
    /\ pc = "amount"
    /\ ~AmountGt0(amount)
    /\ pc' = "tail"
    /\ UNCHANGED <<fn, argvars, locvars, crcvars, result>>

\* lines 67-80: country code, merchant name, merchant city, additional data
EmitTail ==
    /\ pc = "tail"
    /\ payload' = payload \o CountryCode \o NameField(merchant_name)
                          \o CityField(merchant_city) \o AdditionalDataField
    /\ pc' = "crc"
    /\ UNCHANGED <<fn, argvars, cpf_formatted, key_field, desc_field,
                   merchant_info, amount_str, crc, crcvars, result>>

\* lines 83-84: payload += "6304"; calculate_crc16(payload) is entered
EmitCrcPrefix ==
    /\ pc = "crc"
    /\ payload' = payload \o CrcPrefix
    /\ CanEncode(payload')
    /\ data' = payload'
    /\ bytes' = Utf8(payload')
    /\ reg' = CrcInit
    /\ bit' = 0
    /\ pc' = "crc_loop"
    /\ UNCHANGED <<fn, argvars, cpf_formatted, key_field, desc_field,
                   merchant_info, amount_str, crc, result>>

\* lines 83-84: calculate_crc16 raises UnicodeEncodeError
EmitCrcPrefixRaises ==
    /\ pc = "crc"
    /\ payload' = payload \o CrcPrefix
    /\ ~CanEncode(payload')
    /\ pc' = "raised"
    /\ UNCHANGED <<fn, argvars, cpf_formatted, key_field, desc_field,
                   merchant_info, amount_str, crc, crcvars, result>>

\* lines 20-22 and 84: crc = calculate_crc16(payload)
CrcReturnToPayload ==
    /\ fn = "generate_pix_payload"
    /\ pc = "crc_loop"
    /\ bit = 0
    /\ bytes = <<>>
    /\ crc' = reg
    /\ pc' = "append_crc"
    /\ UNCHANGED <<fn, argvars, cpf_formatted, key_field, desc_field,
                   merchant_info, amount_str, payload, crcvars, result>>

\* line 85: payload += f"{crc:04X}"
AppendCrc ==
    /\ pc = "append_crc"
    /\ payload' = payload \o Fmt04X(crc)
    /\ pc' = "return"
    /\ UNCHANGED <<fn, argvars, cpf_formatted, key_field, desc_field,
                   merchant_info, amount_str, crc, crcvars, result>>

\* line 87: return payload
ReturnPayload ==
    /\ pc = "return"
    /\ result' = payload
    /\ pc' = "done"
    /\ UNCHANGED <<fn, argvars, locvars, crcvars>>

Next ==
    \/ CallCalculateCrc16
    \/ CallCalculateCrc16Raises
    \/ CrcNextByte
    \/ CrcShiftBit
    \/ CrcReturn
    \/ CallGeneratePixPayload
    \/ EmitHeader
    \/ EmitMerchantInfo
    \/ EmitCategoryAndCurrency
    \/ EmitAmount
    \/ SkipAmount
    \/ EmitTail
    \/ EmitCrcPrefix
    \/ EmitCrcPrefixRaises
    \/ CrcReturnToPayload
    \/ AppendCrc
    \/ ReturnPayload

Spec == Init /\ [][Next]_vars

(***************************************************************************)
(* Vocabulary of the properties: the TLV grammar of the payload, written   *)
(* independently of the encoder above.                                     *)
(***************************************************************************)
StartsAt(s, pos, t) ==
    /\ pos >= 1
    /\ pos + Len(t) - 1 <= Len(s)
    /\ SubSeq(s, pos, pos + Len(t) - 1) = t

EndsWith(s, t) == Len(t) <= Len(s) /\ SubSeq(s, Len(s) - Len(t) + 1, Len(s)) = t

\* the first n characters of s, all of s when it is shorter
First(s, n) == SubSeq(s, 1, IF Len(s) < n THEN Len(s) ELSE n)

IsAsciiDigit(c) == c \in 48..57
AllAsciiDigits(s) == \A i \in 1..Len(s) : IsAsciiDigit(s[i])

\* a length below 100 as exactly two decimal digits
TwoDigits(n) == <<48 + (n \div 10), 48 + (n % 10)>>

\* a length below 1000 in decimal, two digits at least
LenDigits(n) ==
    IF n < 100 THEN TwoDigits(n)
    ELSE <<48 + (n \div 100), 48 + ((n \div 10) % 10), 48 + (n % 10)>>

\* one TLV field: tag, length, value
Field(tag, value) == tag \o LenDigits(Len(value)) \o value

IsUpperHex(c) == c \in 48..57 \/ c \in 65..70
HexValue(h) ==
    LET v(c) == IF c \in 48..57 THEN c - 48 ELSE c - 55
    IN  (v(h[1]) * 4096) + (v(h[2]) * 256) + (v(h[3]) * 16) + v(h[4])

RECURSIVE ParseTLV(_)
\* Reads s field by field, each a 2-character tag, a 2-digit length and
\* that many units of value; ok when s is consumed exactly.
ParseTLV(s) ==
    IF s = <<>> THEN [ok |-> TRUE, fields |-> <<>>]
    ELSE IF Len(s) < 4 \/ ~AllAsciiDigits(SubSeq(s, 1, 4))
    THEN [ok |-> FALSE, fields |-> <<>>]
    ELSE LET n == ((s[3] - 48) * 10) + (s[4] - 48)
         IN  IF Len(s) < 4 + n THEN [ok |-> FALSE, fields |-> <<>>]
             ELSE LET rest == ParseTLV(SubSeq(s, 5 + n, Len(s)))
                  IN  [ok |-> rest.ok,
                       fields |-> <<[tag |-> SubSeq(s, 1, 2),
                                     val |-> SubSeq(s, 5, 4 + n)]>>
                                  \o rest.fields]

TagsOf(fields) == [i \in 1..Len(fields) |-> fields[i].tag]

Returned == fn = "generate_pix_payload" /\ pc = "done"

Tag00 == <<48, 48>>
Tag01 == <<48, 49>>
Tag02 == <<48, 50>>
Tag26 == <<50, 54>>
Tag52 == <<53, 50>>
Tag53 == <<53, 51>>
Tag54 == <<53, 52>>
Tag58 == <<53, 56>>
Tag59 == <<53, 57>>
Tag60 == <<54, 48>>
Tag62 == <<54, 50>>
Tag63 == <<54, 51>>

GuiText == <<66, 82, 46, 71, 79, 86, 46, 66, 67, 66, 46, 80, 73, 88>>  \* "BR.GOV.BCB.PIX"
Text52040000 == <<53, 50, 48, 52, 48, 48, 48, 48>>
Text5303986 == <<53, 51, 48, 51, 57, 56, 54>>
Text5802BR == <<53, 56, 48, 50, 66, 82>>
Text62070503 == <<54, 50, 48, 55, 48, 53, 48, 51, 42, 42, 42>>        \* "62070503***"
Text6304 == <<54, 51, 48, 52>>
Text000201 == <<48, 48, 48, 50, 48, 49>>
Text123456789 == <<49, 50, 51, 52, 53, 54, 55, 56, 57>>

(***************************************************************************)
(* C1                                                                      *)
(***************************************************************************)
\* C1 (as claimed): every field of a returned payload carries a length of
\* exactly 2 decimal digits equal to the UTF-8 byte length of its value, so
\* the bytes of the payload parse field by field with nothing left over,
\* and so do the bytes of the value of tag 26.
C1_LengthPrefixIntegrity ==
    Returned =>
        LET top == ParseTLV(Utf8(result))
        IN  /\ top.ok
            /\ \A i \in 1..Len(top.fields) :
                   top.fields[i].tag = Tag26 => ParseTLV(top.fields[i].val).ok

(***************************************************************************)
(* C2                                                                      *)
(***************************************************************************)
\* C2: a returned payload ends with "6304" and exactly 4 uppercase
\* hexadecimal digits; the payload without those 4 digits is the text
\* calculate_crc16 was applied to (data), and the value it returned for that
\* text (reg, the register at its return) is the number the 4 digits denote;
\* the returned text is the payload as it stood when they were appended.
C2_ChecksumSelfConsistent ==
    Returned =>
        /\ Len(result) >= 8
        /\ result = payload
        /\ LET body == SubSeq(result, 1, Len(result) - 4)
               hex == SubSeq(result, Len(result) - 3, Len(result))
           IN  /\ EndsWith(body, Text6304)
               /\ \A i \in 1..4 : IsUpperHex(hex[i])
               /\ data = body
               /\ reg = HexValue(hex)

\* C2 witness: a payload was returned whose checksum needs a leading zero
C2_Witness == Returned /\ reg < 4096 /\ Len(result) > 60

(***************************************************************************)
(* C3                                                                      *)
(***************************************************************************)
\* CRC16/CCITT-FALSE bit by bit, most significant bit first: the register
\* is shifted left, and the polynomial 0x1021 is XORed in when the bit
\* shifted out differs from the message bit.
CrcPoly == 4129

RefBit(c, b) ==
    LET differs == ((c \div 32768) % 2) # b
        shifted == (c * 2) % 65536
    IN  IF differs THEN BitXor(shifted, CrcPoly) ELSE shifted

RECURSIVE RefByte(_, _, _)
RefByte(c, byte, k) ==
    IF k = 0 THEN c
    ELSE Only({ RefByte(x, byte, k - 1) :
                  x \in {RefBit(c, (byte \div (2 ^ (k - 1))) % 2)} })

RECURSIVE RefCrc(_, _)
RefCrc(c, bs) ==
    IF bs = <<>> THEN c
    ELSE Only({RefCrc(x, Tail(bs)) : x \in {RefByte(c, Head(bs), 8)}})

\* C3: the register of crc16_ccitt stays within 0..0xFFFF after every step;
\* the value calculate_crc16 returns is the CRC16/CCITT-FALSE (initial value
\* 0xFFFF, polynomial 0x1021, no final XOR) of the UTF-8 bytes of its text,
\* lies in 0..0xFFFF, and is 0x29B1 for "123456789".
C3_Crc16CcittFalse ==
    /\ reg \in 0..65535
    /\ crc \in 0..65535
    /\ (fn = "calculate_crc16" /\ pc = "crc_done") =>
           /\ result \in 0..65535
           /\ result = RefCrc(65535, Utf8(data))
           /\ (data = Text123456789 => result = 10673)

\* C3 witness: calculate_crc16("123456789") returned 0x29B1
C3_Witness ==
    /\ fn = "calculate_crc16" /\ pc = "crc_done"
    /\ data = Text123456789 /\ result = 10673

(***************************************************************************)
(* C4                                                                      *)
(***************************************************************************)
\* C4 (as claimed): the top-level fields of a returned payload are, in this
\* order, 00, 01 (with value "12"), 26, 52, 53, 54 (only when amount > 0),
\* 58, 59, 60, 62, 63.
C4_FieldOrderWithPointOfInitiation ==
    Returned =>
        LET top == ParseTLV(result)
        IN  /\ top.ok
            /\ TagsOf(top.fields) =
                   <<Tag00, Tag01, Tag26, Tag52, Tag53>>
                   \o (IF AmountGt0(amount) THEN <<Tag54>> ELSE <<>>)
                   \o <<Tag58, Tag59, Tag60, Tag62, Tag63>>
            /\ top.fields[2].val = <<49, 50>>

(***************************************************************************)
(* C5                                                                      *)
(***************************************************************************)
\* digits, a period, two digits
IsDecimal2(v) ==
    /\ Len(v) >= 4
    /\ v[Len(v) - 2] = 46
    /\ AllAsciiDigits(SubSeq(v, 1, Len(v) - 3))
    /\ AllAsciiDigits(SubSeq(v, Len(v) - 1, Len(v)))

\* C5 (as claimed): in a returned payload "5303986" is followed by the
\* field 54 exactly when amount > 0, its value the amount written with
\* exactly 2 decimal places ("250.00" for 250), and then by "5802BR"; for
\* any other amount "5303986" is followed directly by "5802BR".
C5_ConditionalAmountField ==
    Returned =>
        \E p \in 1..Len(result) :
            /\ StartsAt(result, p, Text52040000 \o Text5303986)
            /\ IF AmountGt0(amount)
               THEN \E n \in 4..99 :
                       LET v == SubSeq(result, p + 19, p + 18 + n)
                       IN  /\ StartsAt(result, p + 15, Tag54 \o TwoDigits(n))
                           /\ Len(v) = n
                           /\ IsDecimal2(v)
                           /\ (amount = Num(250 * AmountDen) =>
                                  v = <<50, 53, 48, 46, 48, 48>>)
                           /\ StartsAt(result, p + 19 + n, Text5802BR \o Tag59)
               ELSE StartsAt(result, p + 15, Text5802BR \o Tag59)

(***************************************************************************)
(* C6                                                                      *)
(***************************************************************************)
\* C6: in a returned payload the description sub-field (when there is one)
\* holds exactly the first 25 characters of the description and closes the
\* group of tag 26, the field 59 holds exactly the first 25 characters of
\* the merchant name and the field 60 exactly the first 15 of the merchant
\* city; and a call fails only on text that cannot be encoded, never on
\* over-long text.
C6_SilentTruncation ==
    /\ Returned =>
        /\ description # <<>> =>
               \E p \in 1..Len(result) :
                   StartsAt(result, p,
                            Field(Tag02, First(description, 25))
                            \o Text52040000 \o Text5303986)
        /\ EndsWith(SubSeq(result, 1, Len(result) - 8),
                    Text5802BR
                    \o Field(Tag59, First(merchant_name, 25))
                    \o Field(Tag60, First(merchant_city, 15))
                    \o Text62070503)
    /\ (fn = "generate_pix_payload" /\ pc = "raised") =>
           \E i \in 1..Len(payload) : IsSurrogate(payload[i])

\* C6 witness: a payload was returned for a description, a merchant name and
\* a merchant city that are all longer than their limits
C6_Witness ==
    /\ Returned
    /\ Len(description) > 25 /\ Len(merchant_name) > 25 /\ Len(merchant_city) > 15

(***************************************************************************)
(* C7                                                                      *)
(***************************************************************************)
\* C7 (as claimed): the normalized payee id is the characters 0-9 of the
\* payee id in their order and nothing else, normalizing it again changes
\* nothing, and the sub-field 01 of tag 26 carries exactly it.
C7_PayeeIdOnlyAsciiDigits ==
    (fn = "generate_pix_payload" /\ pc # "idle") =>
        /\ AllAsciiDigits(cpf_formatted)
        /\ cpf_formatted = SelectSeq(cpf, IsAsciiDigit)
        /\ format_cpf(cpf_formatted) = cpf_formatted
        /\ Returned =>
               \E p \in 1..Len(result) :
                   StartsAt(result, p, Gui \o Field(Tag01, cpf_formatted))

(***************************************************************************)
(* C8                                                                      *)
(***************************************************************************)
\* C8 (as claimed): no payload is returned when the payee id, the group of
\* tag 26 or the rendered amount is longer than 99 bytes.
C8_FieldTooLongIsSignalled ==
    Returned =>
        /\ Len(Utf8(cpf_formatted)) <= 99
        /\ Len(Utf8(merchant_info)) <= 99
        /\ Len(Utf8(amount_str)) <= 99

(***************************************************************************)
(* C9                                                                      *)
(***************************************************************************)
\* C9 (as claimed): no payload is returned for an amount that is negative,
\* infinite or not a number.
C9_InvalidAmountIsSignalled ==
    Returned => (amount.kind = "num" /\ amount.n >= 0)

(***************************************************************************)
(* C10                                                                     *)
(***************************************************************************)
\* the group of tag 26 the claim describes
C10_Group ==
    Field(Tag00, GuiText)
    \o Field(Tag01, cpf_formatted)
    \o (IF description # <<>> THEN Field(Tag02, First(description, 25))
                              ELSE <<>>)

\* C10: a returned payload opens with "000201", then tag 26, the length of
\* its value and its value, which is the GUI sub-field, the payee-key
\* sub-field and, exactly when the description is not empty, the
\* description sub-field; the merchant category code follows directly.
C10_MerchantAccountGroup ==
    Returned =>
        StartsAt(result, 1,
                 Text000201 \o Field(Tag26, C10_Group) \o Text52040000)

\* C10 witness: a payload was returned for an empty description and a payee
\* id typed with punctuation
C10_Witness ==
    /\ Returned
    /\ description = <<>>
    /\ Len(cpf) > Len(cpf_formatted) /\ Len(cpf_formatted) > 0

====
